---- MODULE Spec2Model ----
(***************************************************************************)
(* A model of the SQL schema differ (sql_schema_differ.rs) and of the       *)
(* SQLite connector (sqlite.rs).                                            *)
(*                                                                         *)
(* Spec: the pipeline of calculate_steps as a state machine, one action    *)
(* per operation of the pipeline, run on pairs of schemas and on flavours  *)
(* drawn from bounded sets.  FkSpec: foreign_keys_match applied to pairs   *)
(* of foreign keys, in both directions.  ParamsSpec: SqliteParams::try_from *)
(* applied to connection strings.  SqliteSpec: callers of one Sqlite        *)
(* adapter and the mutex around its connection.  Each specification leaves *)
(* the variables of the others at their idle values.                       *)
(*                                                                         *)
(* Ids (TableId, ColumnId, index and foreign key positions) are 0-based,   *)
(* as in the source.  An Option is a sequence of length 0 (None) or 1      *)
(* (Some), a Pair is a 2-tuple <<previous, next>>.                         *)
(***************************************************************************)
EXTENDS Integers, Sequences, FiniteSets, TLC

VARIABLES
    schemas,             \* Pair<&SqlSchema>: <<previous, next>>
    flavour,             \* the flavour's predicates that more than one operation consults
    pc,                  \* the position of calculate_steps
    steps,               \* the steps buffer, one per run of calculate_steps on the same input
    tables_to_redefine,  \* HashSet<String> returned by flavour.tables_to_redefine
    alter_indexes,       \* Vec<Pair<(TableId, usize)>>
    redefine_indexes,    \* Vec<Pair<(TableId, usize)>>
    redefine_tables,     \* Vec<RedefineTable>
    alter_enums,         \* Vec<AlterEnum>
    index_flavour,       \* what can_alter_index() and index_should_be_renamed returned to alter_indexes
    fk_pair,             \* Pair<&ForeignKeyWalker>: <<previous, next>>, each <<table, foreign key>>
    fk_flavour,          \* the flavour foreign_keys_match consults
    fk_matches,          \* the results of foreign_keys_match on fk_pair and on fk_pair swapped
    url,                 \* the &str given to SqliteParams::try_from
    platform,            \* the width of usize, the physical cpus, the directories of the file system
    try_from,            \* the position, the locals and the result of SqliteParams::try_from
    client,              \* Mutex<rusqlite::Connection>
    callers              \* the callers of one Sqlite adapter

differ_vars == <<schemas, flavour, pc, steps, tables_to_redefine, alter_indexes,
                 redefine_indexes, redefine_tables, alter_enums, index_flavour>>

fk_vars == <<fk_pair, fk_flavour, fk_matches>>

params_vars == <<url, platform, try_from>>

sqlite_vars == <<client, callers>>

vars == <<differ_vars, fk_vars, params_vars, sqlite_vars>>

\* The values of the variables of a part that is not running.
FkIdle == fk_pair = <<>> /\ fk_flavour = <<>> /\ fk_matches = <<>>

ParamsIdle == url = <<>> /\ platform = <<>> /\ try_from = <<>>

SqliteIdle == client = <<>> /\ callers = <<>>

(***************************************************************************)
(* Bounds.                                                                 *)
(***************************************************************************)
\* The previous and the next schema are the base schema after at most
\* MaxEdits edits in total.
MaxEdits == 2

\* calculate_steps is run this many times on the same input.
NumRuns == 2

Runs == 1..NumRuns

(***************************************************************************)
(* Sequences and options.                                                  *)
(***************************************************************************)
None == <<>>

Some(x) == <<x>>

IsSome(o) == Len(o) = 1

Range(s) == {s[i] : i \in 1..Len(s)}

RemoveAt(s, i) == SubSeq(s, 1, i - 1) \o SubSeq(s, i + 1, Len(s))

RECURSIVE Flatten(_)
Flatten(ss) == IF Len(ss) = 0 THEN <<>> ELSE Head(ss) \o Flatten(Tail(ss))

\* The sequence f(s[1]), f(s[2]), ...
MapSeq(s, f(_)) == [i \in 1..Len(s) |-> f(s[i])]

\* The concatenation of f(s[1]), f(s[2]), ...
FlatMap(s, f(_)) == Flatten([i \in 1..Len(s) |-> f(s[i])])

\* The 0-based ids 0, 1, ..., n-1 in order.
Ids(n) == [i \in 1..n |-> i - 1]

\* Every ordering of a finite set, as sequences.
Orderings(S) ==
    {o \in [1..Cardinality(S) -> S] : \A i, j \in 1..Cardinality(S) : i # j => o[i] # o[j]}

\* Position of the first element of s satisfying the test, 0 when none does.
IndexOfFirst(s, Test(_)) ==
    IF \E i \in 1..Len(s) : Test(s[i])
    THEN CHOOSE i \in 1..Len(s) : Test(s[i]) /\ \A j \in 1..(i - 1) : ~Test(s[j])
    ELSE 0

\* Lexicographic order on pairs of integers.
PairLeq(a, b) == a[1] < b[1] \/ (a[1] = b[1] /\ a[2] <= b[2])

(***************************************************************************)
(* The data model: schemas, tables, columns, indexes, foreign keys, enums. *)
(***************************************************************************)
\* The names in use, in their string order (the order of a name-indexed map).
NameOrder == <<"A", "B", "Color", "a", "b", "bid", "i", "i2", "j", "k">>

\* The members of a set of names in string order.
SortedNames(S) == SelectSeq(NameOrder, LAMBDA n : n \in S)

IntType == [family |-> "Int", enum |-> ""]

StringType == [family |-> "String", enum |-> ""]

EnumType(name) == [family |-> "Enum", enum |-> name]

Column(name, tpe, arity, default) ==
    [name |-> name, tpe |-> tpe, arity |-> arity, default |-> default]

Index(name, columns, tpe) == [name |-> name, columns |-> columns, tpe |-> tpe]

ForeignKey(columns, referenced_table, referenced_columns) ==
    [columns |-> columns, referenced_table |-> referenced_table,
     referenced_columns |-> referenced_columns,
     on_delete_action |-> "Cascade", on_update_action |-> "Cascade"]

\* The schema every input is derived from.  Table A references table B; in
\* table B the order of the columns' ids is not the order of their names.
BaseSchema ==
    [tables |-> <<
        [name |-> "A",
         columns |-> <<Column("bid", IntType, "nullable", None)>>,
         primary_key |-> None,
         indexes |-> <<Index("k", <<"bid">>, "normal")>>,
         foreign_keys |-> <<ForeignKey(<<"bid">>, "B", <<"b">>)>>],
        [name |-> "B",
         columns |-> <<Column("b", IntType, "required", None),
                       Column("a", EnumType("Color"), "required", Some("R"))>>,
         primary_key |-> Some([columns |-> <<"b">>]),
         indexes |-> <<Index("i", <<"b">>, "unique"), Index("j", <<"a">>, "normal")>>,
         foreign_keys |-> <<>>]>>,
     enums |-> <<[name |-> "Color", values |-> <<"R", "G">>]>>]

(***************************************************************************)
(* Edits of a schema.  Each keeps the schema valid: what depended on a     *)
(* removed table, column or enum goes with it.                             *)
(***************************************************************************)
EditRemoveTable(s, t) ==
    LET name == s.tables[t].name
        rest == RemoveAt(s.tables, t)
    IN [s EXCEPT !.tables =
            [u \in 1..Len(rest) |->
                [rest[u] EXCEPT !.foreign_keys =
                    SelectSeq(@, LAMBDA fk : fk.referenced_table # name)]]]

EditRemoveColumn(s, t, c) ==
    LET table == s.tables[t]
        name == table.columns[c].name
        uses(cols) == name \in Range(cols)
    IN [s EXCEPT !.tables =
            [u \in 1..Len(s.tables) |->
                IF u = t
                THEN [table EXCEPT
                        !.columns = RemoveAt(@, c),
                        !.primary_key = SelectSeq(@, LAMBDA pk : ~uses(pk.columns)),
                        !.indexes = SelectSeq(@, LAMBDA ix : ~uses(ix.columns)),
                        !.foreign_keys = SelectSeq(@, LAMBDA fk : ~uses(fk.columns))]
                ELSE [s.tables[u] EXCEPT !.foreign_keys =
                        SelectSeq(@, LAMBDA fk :
                            ~(fk.referenced_table = table.name /\ name \in Range(fk.referenced_columns)))]]]

EditSetType(s, t, c, tpe) == [s EXCEPT !.tables[t].columns[c].tpe = tpe]

EditFlipArity(s, t, c) ==
    [s EXCEPT !.tables[t].columns[c].arity = IF @ = "required" THEN "nullable" ELSE "required"]

EditFlipDefault(s, t, c) ==
    [s EXCEPT !.tables[t].columns[c].default = IF IsSome(@) THEN None ELSE Some("R")]

EditRemoveIndex(s, t, i) == [s EXCEPT !.tables[t].indexes = RemoveAt(@, i)]

EditRenameIndex(s, t, i) == [s EXCEPT !.tables[t].indexes[i].name = "i2"]

EditRemoveForeignKey(s, t, k) == [s EXCEPT !.tables[t].foreign_keys = RemoveAt(@, k)]

EditRemovePrimaryKey(s, t) == [s EXCEPT !.tables[t].primary_key = None]

EditSetEnumValues(s, e) == [s EXCEPT !.enums[e].values = <<"R">>]

EditRemoveEnum(s, e) ==
    LET name == s.enums[e].name
    IN [tables |->
            [t \in 1..Len(s.tables) |->
                [s.tables[t] EXCEPT !.columns =
                    [c \in 1..Len(@) |->
                        IF @[c].tpe = EnumType(name)
                        THEN [@[c] EXCEPT !.tpe = StringType]
                        ELSE @[c]]]],
        enums |-> RemoveAt(s.enums, e)]

ColumnTypes(s) ==
    {IntType, StringType} \cup {EnumType(s.enums[e].name) : e \in 1..Len(s.enums)}

\* The schemas one edit away from s.
Edits(s) ==
    LET T == 1..Len(s.tables)
        TC == {tc \in T \X (1..2) : tc[2] <= Len(s.tables[tc[1]].columns)}
        TI == {ti \in T \X (1..2) : ti[2] <= Len(s.tables[ti[1]].indexes)}
        TK == {tk \in T \X (1..1) : tk[2] <= Len(s.tables[tk[1]].foreign_keys)}
    IN  {EditRemoveTable(s, t) : t \in T}
        \cup {EditRemoveColumn(s, tc[1], tc[2]) :
                tc \in {x \in TC : Len(s.tables[x[1]].columns) > 1}}
        \cup UNION {{EditSetType(s, tc[1], tc[2], tpe) :
                        tpe \in ColumnTypes(s) \ {s.tables[tc[1]].columns[tc[2]].tpe}} : tc \in TC}
        \cup {EditFlipArity(s, tc[1], tc[2]) : tc \in TC}
        \cup {EditFlipDefault(s, tc[1], tc[2]) : tc \in TC}
        \cup {EditRemoveIndex(s, ti[1], ti[2]) : ti \in TI}
        \cup {EditRenameIndex(s, ti[1], ti[2]) :
                ti \in {x \in TI : s.tables[x[1]].indexes[x[2]].name = "i"}}
        \cup {EditRemoveForeignKey(s, tk[1], tk[2]) : tk \in TK}
        \cup {EditRemovePrimaryKey(s, t) : t \in {x \in T : IsSome(s.tables[x].primary_key)}}
        \cup {EditSetEnumValues(s, e) :
                e \in {x \in 1..Len(s.enums) : s.enums[x].values # <<"R">>}}
        \cup {EditRemoveEnum(s, e) : e \in 1..Len(s.enums)}

\* The schemas exactly n edits away from the base schema.
RECURSIVE Edited(_)
Edited(n) == IF n = 0 THEN {BaseSchema} ELSE UNION {Edits(s) : s \in Edited(n - 1)}

\* The pairs of schemas calculate_steps is run on.
SchemaPairs ==
    UNION {Edited(np[1]) \X Edited(np[2]) :
            np \in {x \in (0..MaxEdits) \X (0..MaxEdits) : x[1] + x[2] <= MaxEdits}}

(***************************************************************************)
(* Walkers: reading a schema by id.                                        *)
(***************************************************************************)
PreviousSchema == schemas[1]

NextSchema == schemas[2]

table_walker_at(schema, table_id) == schema.tables[table_id + 1]

column_at(table, column_id) == table.columns[column_id + 1]

TableNames(schema) == {schema.tables[t].name : t \in 1..Len(schema.tables)}

TableIdOf(schema, name) == (CHOOSE t \in 1..Len(schema.tables) : schema.tables[t].name = name) - 1

ColumnNames(table) == {table.columns[c].name : c \in 1..Len(table.columns)}

ColumnIdOf(table, name) == (CHOOSE c \in 1..Len(table.columns) : table.columns[c].name = name) - 1

\* The column walkers of a list of column names of a table.
ColumnsNamed(table, names) == [i \in 1..Len(names) |-> column_at(table, ColumnIdOf(table, names[i]))]

column_type_is_enum(column, enum_name) == column.tpe = EnumType(enum_name)

is_part_of_primary_key(table, column_id) ==
    /\ IsSome(table.primary_key)
    /\ column_at(table, column_id).name \in Range(table.primary_key[1].columns)

(***************************************************************************)
(* Foreign key and enum matching.                                          *)
(***************************************************************************)
families_match(x, y) ==
    \/ x.family = "Uuid" /\ y.family = "String"
    \/ x.family = "String" /\ y.family = "Uuid"
    \/ x = y

\* Without the flavour's can_cope_with_foreign_key_column_becoming_nonnullable().
arities_ok_ignoring_flavour(previous, next, can_cope) ==
    \/ previous.arity = next.arity
    \/ (previous.arity = "required" /\ next.arity = "nullable")

\* Without the tolerance of a required column becoming nullable.
arities_ok_equal_only(previous, next, can_cope) ==
    \/ can_cope
    \/ previous.arity = next.arity

arities_ok(previous, next, can_cope) ==
    \/ can_cope
    \/ previous.arity = next.arity
    \/ (previous.arity = "required" /\ next.arity = "nullable")

\* fks is a pair of <<table, foreign key>>; can_cope and referential_actions are
\* the flavour's can_cope_with_foreign_key_column_becoming_nonnullable() and
\* whether its preview features contain ReferentialActions.
foreign_keys_match(fks, can_cope, referential_actions) ==
    LET previous == fks[1][2]
        next == fks[2][2]
        pcols == ColumnsNamed(fks[1][1], previous.columns)
        ncols == ColumnsNamed(fks[2][1], next.columns)
        Min(a, b) == IF a < b THEN a ELSE b
        references_same_table == previous.referenced_table = next.referenced_table
        references_same_column_count ==
            Len(previous.referenced_columns) = Len(next.referenced_columns)
        constrains_same_column_count == Len(pcols) = Len(ncols)
        constrains_same_columns ==
            \A i \in 1..Min(Len(pcols), Len(ncols)) :
                /\ pcols[i].name = ncols[i].name
                /\ families_match(pcols[i].tpe, ncols[i].tpe)
                /\ arities_ok(pcols[i], ncols[i], can_cope)
        references_same_columns ==
            \A i \in 1..Min(Len(previous.referenced_columns), Len(next.referenced_columns)) :
                previous.referenced_columns[i] = next.referenced_columns[i]
        matches ==
            /\ references_same_table
            /\ references_same_column_count
            /\ constrains_same_column_count
            /\ constrains_same_columns
            /\ references_same_columns
    IN  IF referential_actions
        THEN /\ matches
             /\ previous.on_delete_action = next.on_delete_action
             /\ previous.on_update_action = next.on_update_action
        ELSE matches

enums_match(previous, next) == previous.name = next.name

\* Pairs <<previous enum index, next enum index>>.
enum_pairs ==
    LET P == PreviousSchema.enums
        N == NextSchema.enums
        find(p) == IndexOfFirst(N, LAMBDA n : enums_match(P[p + 1], n))
    IN  MapSeq(SelectSeq(Ids(Len(P)), LAMBDA p : find(p) # 0), LAMBDA p : <<p, find(p) - 1>>)

created_enums ==
    SelectSeq(Ids(Len(NextSchema.enums)), LAMBDA n :
        ~\E p \in 1..Len(PreviousSchema.enums) :
            enums_match(PreviousSchema.enums[p], NextSchema.enums[n + 1]))

dropped_enums ==
    SelectSeq(Ids(Len(PreviousSchema.enums)), LAMBDA p :
        ~\E n \in 1..Len(NextSchema.enums) :
            enums_match(PreviousSchema.enums[p + 1], NextSchema.enums[n]))

(***************************************************************************)
(* DifferDatabase: the tables of the two schemas, indexed by name.         *)
(***************************************************************************)
\* Pairs <<previous table id, next table id>> of the tables in both schemas.
table_pairs ==
    MapSeq(SortedNames(TableNames(PreviousSchema) \cap TableNames(NextSchema)),
           LAMBDA n : <<TableIdOf(PreviousSchema, n), TableIdOf(NextSchema, n)>>)

created_tables ==
    MapSeq(SortedNames(TableNames(NextSchema) \ TableNames(PreviousSchema)),
           LAMBDA n : TableIdOf(NextSchema, n))

dropped_tables ==
    MapSeq(SortedNames(TableNames(PreviousSchema) \ TableNames(NextSchema)),
           LAMBDA n : TableIdOf(PreviousSchema, n))

(***************************************************************************)
(* TableDiffer: tables is a pair <<previous table id, next table id>>.     *)
(***************************************************************************)
previous_table(tables) == table_walker_at(PreviousSchema, tables[1])

next_table(tables) == table_walker_at(NextSchema, tables[2])

\* Pairs <<previous column id, next column id>> of the columns in both tables.
column_pairs(tables) ==
    LET p == previous_table(tables)
        n == next_table(tables)
    IN  MapSeq(SortedNames(ColumnNames(p) \cap ColumnNames(n)),
               LAMBDA c : <<ColumnIdOf(p, c), ColumnIdOf(n, c)>>)

dropped_columns(tables) ==
    LET p == previous_table(tables)
    IN  SelectSeq(Ids(Len(p.columns)), LAMBDA c :
            column_at(p, c).name \notin ColumnNames(next_table(tables)))

added_columns(tables) ==
    LET n == next_table(tables)
    IN  SelectSeq(Ids(Len(n.columns)), LAMBDA c :
            column_at(n, c).name \notin ColumnNames(previous_table(tables)))

\* The flavour's castability verdict on a pair of columns.
column_type_change(previous, next) ==
    IF previous.tpe = next.tpe THEN None
    ELSE IF previous.tpe = IntType /\ next.tpe = StringType THEN Some("SafeCast")
    ELSE IF previous.tpe = StringType /\ next.tpe = IntType THEN Some("RiskyCast")
    ELSE Some("NotCastable")

\* <<ColumnChanges, Option<ColumnTypeChange>>> of a pair of column ids.
all_changes(tables, columns) ==
    LET previous == column_at(previous_table(tables), columns[1])
        next == column_at(next_table(tables), columns[2])
        type_change == column_type_change(previous, next)
    IN  << (IF previous.arity # next.arity THEN {"Arity"} ELSE {})
           \cup (IF IsSome(type_change) THEN {"TypeChanged"} ELSE {})
           \cup (IF previous.default # next.default THEN {"Default"} ELSE {}),
           type_change >>

differs_in_something(changes) == changes # {}

indexes_match(previous, next) ==
    previous.name = next.name /\ previous.tpe = next.tpe /\ previous.columns = next.columns

\* Pairs <<previous index, next index>> (positions) of the indexes in both tables.
index_pairs(tables) ==
    LET P == previous_table(tables).indexes
        N == next_table(tables).indexes
        find(p) == IndexOfFirst(N, LAMBDA n : indexes_match(P[p + 1], n))
    IN  MapSeq(SelectSeq(Ids(Len(P)), LAMBDA p : find(p) # 0), LAMBDA p : <<p, find(p) - 1>>)

created_indexes(tables) ==
    LET P == previous_table(tables).indexes
        N == next_table(tables).indexes
    IN  SelectSeq(Ids(Len(N)), LAMBDA n : ~\E p \in 1..Len(P) : indexes_match(P[p], N[n + 1]))

dropped_indexes(tables) ==
    LET P == previous_table(tables).indexes
        N == next_table(tables).indexes
    IN  SelectSeq(Ids(Len(P)), LAMBDA p : ~\E n \in 1..Len(N) : indexes_match(P[p + 1], N[n]))

created_foreign_keys(tables, can_cope, referential_actions) ==
    LET p == previous_table(tables)
        n == next_table(tables)
    IN  SelectSeq(Ids(Len(n.foreign_keys)), LAMBDA nk :
            ~\E pk \in 1..Len(p.foreign_keys) :
                foreign_keys_match(<< <<p, p.foreign_keys[pk]>>, <<n, n.foreign_keys[nk + 1]>> >>,
                                   can_cope, referential_actions))

dropped_foreign_keys(tables, can_cope, referential_actions) ==
    LET p == previous_table(tables)
        n == next_table(tables)
    IN  SelectSeq(Ids(Len(p.foreign_keys)), LAMBDA pk :
            ~\E nk \in 1..Len(n.foreign_keys) :
                foreign_keys_match(<< <<p, p.foreign_keys[pk + 1]>>, <<n, n.foreign_keys[nk]>> >>,
                                   can_cope, referential_actions))

\* Option<PrimaryKey>: the next primary key when it is new or its columns changed.
created_primary_key(tables) ==
    LET p == previous_table(tables).primary_key
        n == next_table(tables).primary_key
    IN  IF IsSome(n) /\ (~IsSome(p) \/ p[1].columns # n[1].columns) THEN n ELSE None

\* Option<PrimaryKey>: the previous primary key when it is gone or its columns changed.
dropped_primary_key(tables) ==
    LET p == previous_table(tables).primary_key
        n == next_table(tables).primary_key
    IN  IF IsSome(p) /\ (~IsSome(n) \/ p[1].columns # n[1].columns) THEN p ELSE None

\* Whether an index of the table has the columns of one of its foreign keys.
index_covers_fk(table, index) ==
    \E k \in 1..Len(table.foreign_keys) : table.foreign_keys[k].columns = index.columns

(***************************************************************************)
(* SqlMigrationStep and TableChange values.                                *)
(***************************************************************************)
CreateTable(table_id) == [kind |-> "CreateTable", table_id |-> table_id]

DropTable(table_id) == [kind |-> "DropTable", table_id |-> table_id]

AddForeignKey(table_id, foreign_key_index) ==
    [kind |-> "AddForeignKey", table_id |-> table_id, foreign_key_index |-> foreign_key_index]

DropForeignKey(table_id, foreign_key_index) ==
    [kind |-> "DropForeignKey", table_id |-> table_id, foreign_key_index |-> foreign_key_index]

\* table_id is <<Option<TableId> (previous), TableId (next)>>.
CreateIndex(table_id, index_index) ==
    [kind |-> "CreateIndex", table_id |-> table_id, index_index |-> index_index]

DropIndex(table_id, index_index) ==
    [kind |-> "DropIndex", table_id |-> table_id, index_index |-> index_index]

AlterTable(table_ids, changes) ==
    [kind |-> "AlterTable", table_ids |-> table_ids, changes |-> changes]

\* idxs is a Pair<(TableId, usize)>.
AlterIndex(idxs) ==
    [kind |-> "AlterIndex", table |-> <<idxs[1][1], idxs[2][1]>>, index |-> <<idxs[1][2], idxs[2][2]>>]

RedefineIndex(idxs) ==
    [kind |-> "RedefineIndex", table |-> <<idxs[1][1], idxs[2][1]>>, index |-> <<idxs[1][2], idxs[2][2]>>]

AlterEnumStep(alter_enum) == [kind |-> "AlterEnum", alter_enum |-> alter_enum]

CreateEnum(enum_index) == [kind |-> "CreateEnum", enum_index |-> enum_index]

DropEnum(enum_index) == [kind |-> "DropEnum", enum_index |-> enum_index]

RedefineTablesStep(tables) == [kind |-> "RedefineTables", tables |-> tables]

DropPrimaryKey == [kind |-> "DropPrimaryKey"]

AddPrimaryKey == [kind |-> "AddPrimaryKey"]

DropColumn(column_id) == [kind |-> "DropColumn", column_id |-> column_id]

AddColumn(column_id) == [kind |-> "AddColumn", column_id |-> column_id]

AlterColumn(column_id, changes, type_change) ==
    [kind |-> "AlterColumn", column_id |-> column_id, changes |-> changes,
     type_change |-> type_change]

DropAndRecreateColumn(column_id, changes) ==
    [kind |-> "DropAndRecreateColumn", column_id |-> column_id, changes |-> changes]

(***************************************************************************)
(* Sorting.                                                                *)
(***************************************************************************)
\* A sequence of <<key, value>> with x inserted after the last entry whose key
\* is not greater than that of x.
RECURSIVE InsertSorted(_, _)
InsertSorted(s, x) ==
    IF Len(s) = 0 THEN <<x>>
    ELSE IF s[Len(s)][1] <= x[1] THEN Append(s, x)
    ELSE Append(InsertSorted(SubSeq(s, 1, Len(s) - 1), x), s[Len(s)])

RECURSIVE SortKeyed(_)
SortKeyed(s) ==
    IF Len(s) = 0 THEN <<>>
    ELSE InsertSorted(SortKeyed(SubSeq(s, 1, Len(s) - 1)), s[Len(s)])

\* The stable sort of s by an integer key.
StableSortByKey(s, Key(_)) ==
    MapSeq(SortKeyed([i \in 1..Len(s) |-> <<Key(s[i]), s[i]>>]), LAMBDA e : e[2])

\* The order of the step kinds: Create-* before Alter-* before Drop-*, with
\* CreateTable before AddForeignKey and DropForeignKey before DropTable.
StepKindOrder ==
    <<"CreateEnum", "CreateTable", "CreateIndex", "AddForeignKey", "AlterEnum",
      "AlterTable", "RedefineTables", "AlterIndex", "RedefineIndex",
      "DropForeignKey", "DropIndex", "DropTable", "DropEnum">>

StepKindRank(step) == CHOOSE r \in 1..Len(StepKindOrder) : StepKindOrder[r] = step.kind

\* The buffer returned as it was filled.
sort_steps_skipped(buffer) == buffer

\* A sort by kind that does not keep the order of the steps of a kind.
sort_steps_unstable(buffer) ==
    StableSortByKey([i \in 1..Len(buffer) |-> buffer[Len(buffer) + 1 - i]], StepKindRank)

\* steps.sort()
sort_steps(buffer) == StableSortByKey(buffer, StepKindRank)

\* The changes left in the order of column_pairs.
sort_alter_columns_skipped(changes) == changes

\* alter_columns.sort_by_key(column_id): by (previous, next), lexicographically.
\* The key of a change is the number of changes with a smaller pair of ids.
sort_alter_columns(changes) ==
    StableSortByKey(changes, LAMBDA tc :
        Cardinality({j \in 1..Len(changes) :
            /\ changes[j].column_id # tc.column_id
            /\ PairLeq(changes[j].column_id, tc.column_id)}))

(***************************************************************************)
(* The operations of SqlSchemaDiffer.  Each returns what it pushes.        *)
(***************************************************************************)
push_create_tables(should_push_foreign_keys_from_created_tables) ==
    FlatMap(created_tables, LAMBDA t :
        <<CreateTable(t)>> \o
        (IF should_push_foreign_keys_from_created_tables
         THEN MapSeq(Ids(Len(table_walker_at(NextSchema, t).foreign_keys)),
                     LAMBDA k : AddForeignKey(t, k))
         ELSE <<>>))

drop_tables(should_drop_foreign_keys_from_dropped_tables) ==
    FlatMap(dropped_tables, LAMBDA t :
        <<DropTable(t)>> \o
        (IF should_drop_foreign_keys_from_dropped_tables
         THEN MapSeq(Ids(Len(table_walker_at(PreviousSchema, t).foreign_keys)),
                     LAMBDA k : DropForeignKey(t, k))
         ELSE <<>>))

drop_columns(tables) == MapSeq(dropped_columns(tables), DropColumn)

add_columns(tables) == MapSeq(added_columns(tables), AddColumn)

\* Without the test of differs_in_something.
alter_column_unconditional(tables, columns) ==
    LET all == all_changes(tables, columns)
    IN  IF all[2] = Some("NotCastable") THEN <<DropAndRecreateColumn(columns, all[1])>>
        ELSE <<AlterColumn(columns, all[1], all[2])>>

\* Without the NotCastable arm.
alter_column_always_alter(tables, columns) ==
    LET all == all_changes(tables, columns)
    IN  IF ~differs_in_something(all[1]) THEN <<>>
        ELSE <<AlterColumn(columns, all[1], all[2])>>

\* One column pair's entry in alter_columns: nothing, an AlterColumn or a
\* DropAndRecreateColumn.
alter_column(tables, columns) ==
    LET all == all_changes(tables, columns)
    IN  IF ~differs_in_something(all[1]) THEN <<>>
        ELSE IF all[2] = Some("NotCastable") THEN <<DropAndRecreateColumn(columns, all[1])>>
        ELSE <<AlterColumn(columns, all[1], all[2])>>

alter_columns(tables) ==
    sort_alter_columns(FlatMap(column_pairs(tables), LAMBDA columns : alter_column(tables, columns)))

\* Whether a dropped-and-recreated column is part of the previous primary key.
from_recreate(tables) ==
    \E tc \in Range(alter_columns(tables)) :
        /\ tc.kind = "DropAndRecreateColumn"
        /\ is_part_of_primary_key(previous_table(tables), tc.column_id[1])

add_primary_key(tables) ==
    LET created == created_primary_key(tables)
        from_psl_change == IsSome(created) /\ Len(created[1].columns) # 0
    IN  IF flavour.should_recreate_the_primary_key_on_column_recreate
        THEN (IF from_psl_change \/ from_recreate(tables) THEN Some(AddPrimaryKey) ELSE None)
        ELSE (IF from_psl_change THEN Some(AddPrimaryKey) ELSE None)

\* Without the recreation for a dropped and recreated column.
drop_primary_key_from_psl_change_only(tables) ==
    IF IsSome(dropped_primary_key(tables)) THEN Some(DropPrimaryKey) ELSE None

drop_primary_key(tables) ==
    LET from_psl_change == IsSome(dropped_primary_key(tables))
    IN  IF flavour.should_recreate_the_primary_key_on_column_recreate
        THEN (IF from_psl_change \/ from_recreate(tables) THEN Some(DropPrimaryKey) ELSE None)
        ELSE (IF from_psl_change THEN Some(DropPrimaryKey) ELSE None)

\* The TableChanges of an AlterTable.  Order matters.
table_changes(tables) ==
    drop_primary_key(tables) \o drop_columns(tables) \o add_columns(tables)
        \o alter_columns(tables) \o add_primary_key(tables)

\* The flavour's hook: a flavour whose indexes depend on the types of their
\* columns recreates the paired indexes of a column whose type changed.
push_index_changes_for_column_changes(tables, columns, changes, recreates_indexes) ==
    IF recreates_indexes /\ "TypeChanged" \in changes
    THEN FlatMap(SelectSeq(index_pairs(tables), LAMBDA ix :
                    column_at(previous_table(tables), columns[1]).name
                        \in Range(previous_table(tables).indexes[ix[1] + 1].columns)),
                 LAMBDA ix : <<DropIndex(tables[1], ix[1]),
                               CreateIndex(<<Some(tables[1]), tables[2]>>, ix[2])>>)
    ELSE <<>>

not_redefined(R, tables) == next_table(tables).name \notin R

\* Without skipping the tables whose changes are empty.
push_altered_table_unconditional(tables, can_cope, referential_actions, recreates_indexes) ==
    MapSeq(created_foreign_keys(tables, can_cope, referential_actions),
           LAMBDA k : AddForeignKey(tables[2], k))
    \o MapSeq(dropped_foreign_keys(tables, can_cope, referential_actions),
              LAMBDA k : DropForeignKey(tables[1], k))
    \o FlatMap(column_pairs(tables), LAMBDA columns :
            push_index_changes_for_column_changes(
                tables, columns, all_changes(tables, columns)[1], recreates_indexes))
    \o <<AlterTable(tables, table_changes(tables))>>

\* What push_altered_tables pushes for one table pair.
push_altered_table(tables, can_cope, referential_actions, recreates_indexes) ==
    LET changes == table_changes(tables)
    IN  MapSeq(created_foreign_keys(tables, can_cope, referential_actions),
               LAMBDA k : AddForeignKey(tables[2], k))
        \o MapSeq(dropped_foreign_keys(tables, can_cope, referential_actions),
                  LAMBDA k : DropForeignKey(tables[1], k))
        \o (IF Len(changes) = 0 THEN <<>>
            ELSE FlatMap(column_pairs(tables), LAMBDA columns :
                    push_index_changes_for_column_changes(
                        tables, columns, all_changes(tables, columns)[1], recreates_indexes))
                 \o <<AlterTable(tables, changes)>>)

\* Without the filter on tables_to_redefine.
push_altered_tables_unfiltered(R, can_cope, referential_actions, recreates_indexes) ==
    FlatMap(table_pairs,
            LAMBDA tables : push_altered_table(tables, can_cope, referential_actions, recreates_indexes))

push_altered_tables(R, can_cope, referential_actions, recreates_indexes) ==
    FlatMap(SelectSeq(table_pairs, LAMBDA tables : not_redefined(R, tables)),
            LAMBDA tables : push_altered_table(tables, can_cope, referential_actions, recreates_indexes))

\* The set of (TableId, index) drop_indexes collects in its HashSet.
drop_indexes(R, should_skip_fk_indexes, should_drop_indexes_from_dropped_tables) ==
    UNION {{<<tables[1], i>> : i \in {x \in Range(dropped_indexes(tables)) :
                ~(should_skip_fk_indexes
                  /\ index_covers_fk(previous_table(tables), previous_table(tables).indexes[x + 1]))}}
           : tables \in Range(table_pairs)}
    \cup (IF R # {} /\ should_drop_indexes_from_dropped_tables
          THEN UNION {{<<t, i>> : i \in Range(Ids(Len(table_walker_at(PreviousSchema, t).indexes)))}
                      : t \in Range(dropped_tables)}
          ELSE {})

\* The next ids of the column pairs of a table pair whose type change is NotCastable.
dropped_and_recreated_column_ids_next(tables) ==
    {columns[2] : columns \in {x \in Range(column_pairs(tables)) :
                                all_changes(tables, x)[2] = Some("NotCastable")}}

\* The flavour's should_skip_index_for_new_table: a flavour that creates unique
\* indexes together with their table skips them.
should_skip_index_for_new_table(index, skips_unique_indexes) ==
    skips_unique_indexes /\ index.tpe = "unique"

push_create_indexes(R, should_create_indexes_from_created_tables, skips_unique_indexes, indexes_should_be_recreated_after_column_drop) ==
    (IF should_create_indexes_from_created_tables
     THEN FlatMap(created_tables, LAMBDA t :
            MapSeq(SelectSeq(Ids(Len(table_walker_at(NextSchema, t).indexes)), LAMBDA i :
                        ~should_skip_index_for_new_table(
                            table_walker_at(NextSchema, t).indexes[i + 1], skips_unique_indexes)),
                   LAMBDA i : CreateIndex(<<None, t>>, i)))
     ELSE <<>>)
    \o FlatMap(SelectSeq(table_pairs, LAMBDA tables : not_redefined(R, tables)), LAMBDA tables :
            MapSeq(created_indexes(tables),
                   LAMBDA i : CreateIndex(<<Some(tables[1]), tables[2]>>, i))
            \o (IF indexes_should_be_recreated_after_column_drop
                THEN MapSeq(SelectSeq(index_pairs(tables), LAMBDA ix :
                                \E c \in Range(next_table(tables).indexes[ix[2] + 1].columns) :
                                    ColumnIdOf(next_table(tables), c)
                                        \in dropped_and_recreated_column_ids_next(tables)),
                            LAMBDA ix : CreateIndex(<<Some(tables[1]), tables[2]>>, ix[2]))
                ELSE <<>>))

redefine_table(tables) ==
    [table_ids |-> tables,
     dropped_primary_key |-> IsSome(drop_primary_key(tables)),
     added_columns |-> added_columns(tables),
     dropped_columns |-> dropped_columns(tables),
     column_pairs |-> MapSeq(column_pairs(tables), LAMBDA columns :
                        <<columns, all_changes(tables, columns)[1], all_changes(tables, columns)[2]>>)]

calculate_redefine_tables(R) ==
    MapSeq(SelectSeq(table_pairs, LAMBDA tables : ~not_redefined(R, tables)), redefine_table)

\* The flavour's index_should_be_renamed, a predicate on index pairs: renamed is
\* the set of the names of the (next) indexes it holds of.
index_should_be_renamed(tables, ix, renamed) ==
    next_table(tables).indexes[ix[2] + 1].name \in renamed

\* calculate_alter_indexes over every table pair, redefined or not.
calculate_alter_indexes_of_every_table(R, renamed) ==
    FlatMap(table_pairs, LAMBDA tables :
        MapSeq(SelectSeq(index_pairs(tables), LAMBDA ix : index_should_be_renamed(tables, ix, renamed)),
               LAMBDA ix : << <<tables[1], ix[1]>>, <<tables[2], ix[2]>> >>))

\* Vec<Pair<(TableId, usize)>>
calculate_alter_indexes(R, renamed) ==
    FlatMap(SelectSeq(table_pairs, LAMBDA tables : not_redefined(R, tables)), LAMBDA tables :
        MapSeq(SelectSeq(index_pairs(tables), LAMBDA ix : index_should_be_renamed(tables, ix, renamed)),
               LAMBDA ix : << <<tables[1], ix[1]>>, <<tables[2], ix[2]>> >>))

\* The flavour's alter_enums: a flavour with enums alters the paired enums whose
\* values changed.
flavour_alter_enums(has_enums) ==
    IF has_enums
    THEN MapSeq(SelectSeq(enum_pairs, LAMBDA e :
                    PreviousSchema.enums[e[1] + 1].values # NextSchema.enums[e[2] + 1].values),
                LAMBDA e :
                    [index |-> e,
                     created_variants |-> Range(NextSchema.enums[e[2] + 1].values)
                                            \ Range(PreviousSchema.enums[e[1] + 1].values),
                     dropped_variants |-> Range(PreviousSchema.enums[e[1] + 1].values)
                                            \ Range(NextSchema.enums[e[2] + 1].values),
                     previous_usages_as_default |-> <<>>])
    ELSE <<>>

\* The flavour's create_enums and drop_enums.
flavour_create_enums(has_enums) == IF has_enums THEN MapSeq(created_enums, CreateEnum) ELSE <<>>

flavour_drop_enums(has_enums) == IF has_enums THEN MapSeq(dropped_enums, DropEnum) ELSE <<>>

\* Whether a column has the enum type of that name and a default.
uses_enum_as_default(column, enum_name) ==
    column_type_is_enum(column, enum_name) /\ IsSome(column.default)

\* The usages in the paired columns only.
previous_usages_in_column_pairs_only(alter_enum) ==
    LET previous_name == PreviousSchema.enums[alter_enum.index[1] + 1].name
        next_name == NextSchema.enums[alter_enum.index[2] + 1].name
    IN  FlatMap(table_pairs, LAMBDA tables :
            MapSeq(SelectSeq(column_pairs(tables), LAMBDA columns :
                        uses_enum_as_default(column_at(previous_table(tables), columns[1]), previous_name)),
                   LAMBDA columns :
                        << <<tables[1], columns[1]>>,
                           IF uses_enum_as_default(column_at(next_table(tables), columns[2]), next_name)
                           THEN Some(<<tables[2], columns[2]>>)
                           ELSE None >>))

\* The previous_usages_as_default of one AlterEnum.
previous_usages_as_default(alter_enum) ==
    LET previous_name == PreviousSchema.enums[alter_enum.index[1] + 1].name
        next_name == NextSchema.enums[alter_enum.index[2] + 1].name
        used(table, c) == uses_enum_as_default(column_at(table, c), previous_name)
    IN  FlatMap(dropped_tables, LAMBDA t :
            MapSeq(SelectSeq(Ids(Len(table_walker_at(PreviousSchema, t).columns)),
                             LAMBDA c : used(table_walker_at(PreviousSchema, t), c)),
                   LAMBDA c : << <<t, c>>, None >>))
        \o FlatMap(table_pairs, LAMBDA tables :
            MapSeq(SelectSeq(dropped_columns(tables), LAMBDA c : used(previous_table(tables), c)),
                   LAMBDA c : << <<tables[1], c>>, None >>)
            \o MapSeq(SelectSeq(column_pairs(tables),
                                LAMBDA columns : used(previous_table(tables), columns[1])),
                      LAMBDA columns :
                        << <<tables[1], columns[1]>>,
                           IF uses_enum_as_default(column_at(next_table(tables), columns[2]), next_name)
                           THEN Some(<<tables[2], columns[2]>>)
                           ELSE None >>))

push_previous_usages_as_defaults_in_altered_enums(enums) ==
    MapSeq(enums, LAMBDA alter_enum :
        [alter_enum EXCEPT !.previous_usages_as_default = previous_usages_as_default(alter_enum)])

\* What calculate_steps appends last: AlterEnum, RedefineTables (if any),
\* AlterIndex, RedefineIndex, in that order.
extended_steps ==
    MapSeq(alter_enums, AlterEnumStep)
    \o (IF Len(redefine_tables) # 0 THEN <<RedefineTablesStep(redefine_tables)>> ELSE <<>>)
    \o MapSeq(alter_indexes, AlterIndex)
    \o MapSeq(redefine_indexes, RedefineIndex)

(***************************************************************************)
(* calculate_steps as a state machine.                                     *)
(***************************************************************************)
\* The names the flavour's index_should_be_renamed may hold of.
RenameCandidates == {"k"}

Flavours == [should_recreate_the_primary_key_on_column_recreate : BOOLEAN]

Init ==
    /\ schemas \in SchemaPairs
    /\ flavour \in Flavours
    /\ pc = "push_create_tables"
    /\ steps = [r \in Runs |-> <<>>]
    /\ tables_to_redefine = {}
    /\ alter_indexes = <<>>
    /\ redefine_indexes = <<>>
    /\ redefine_tables = <<>>
    /\ alter_enums = <<>>
    /\ index_flavour = <<>>
    /\ FkIdle
    /\ ParamsIdle
    /\ SqliteIdle

\* Every run pushes the same steps.
Push(new) == steps' = [r \in Runs |-> steps[r] \o new]

PushCreateTables ==
    /\ pc = "push_create_tables"
    /\ \E should_push_foreign_keys_from_created_tables \in BOOLEAN :
            Push(push_create_tables(should_push_foreign_keys_from_created_tables))
    /\ pc' = "tables_to_redefine"
    /\ UNCHANGED <<index_flavour, fk_vars, params_vars, sqlite_vars>>
    /\ UNCHANGED <<schemas, flavour, tables_to_redefine, alter_indexes, redefine_indexes,
                   redefine_tables, alter_enums>>

TablesToRedefine ==
    /\ pc = "tables_to_redefine"
    /\ tables_to_redefine' \in SUBSET (TableNames(PreviousSchema) \cup TableNames(NextSchema))
    /\ pc' = "alter_indexes"
    /\ UNCHANGED <<index_flavour, fk_vars, params_vars, sqlite_vars>>
    /\ UNCHANGED <<schemas, flavour, steps, alter_indexes, redefine_indexes, redefine_tables,
                   alter_enums>>

AlterIndexes ==
    /\ pc = "alter_indexes"
    /\ \E renamed \in SUBSET RenameCandidates, can_alter_index \in BOOLEAN :
            LET computed == calculate_alter_indexes(tables_to_redefine, renamed)
            IN  /\ alter_indexes' = IF can_alter_index THEN computed ELSE <<>>
                /\ redefine_indexes' = IF can_alter_index THEN <<>> ELSE computed
                /\ index_flavour' = [can_alter_index |-> can_alter_index, renamed |-> renamed]
    /\ pc' = "drop_tables"
    /\ UNCHANGED <<fk_vars, params_vars, sqlite_vars>>
    /\ UNCHANGED <<schemas, flavour, steps, tables_to_redefine, redefine_tables, alter_enums>>

DropTables ==
    /\ pc = "drop_tables"
    /\ \E should_drop_foreign_keys_from_dropped_tables \in BOOLEAN :
            Push(drop_tables(should_drop_foreign_keys_from_dropped_tables))
    /\ pc' = "drop_indexes"
    /\ UNCHANGED <<index_flavour, fk_vars, params_vars, sqlite_vars>>
    /\ UNCHANGED <<schemas, flavour, tables_to_redefine, alter_indexes, redefine_indexes,
                   redefine_tables, alter_enums>>

\* Each run iterates its own HashSet, in an order of its own.
DropIndexes ==
    /\ pc = "drop_indexes"
    /\ \E should_skip_fk_indexes \in BOOLEAN, should_drop_indexes_from_dropped_tables \in BOOLEAN :
            LET collected == drop_indexes(tables_to_redefine, should_skip_fk_indexes,
                                          should_drop_indexes_from_dropped_tables)
            IN  \E order \in [Runs -> Orderings(collected)] :
                    steps' = [r \in Runs |->
                                steps[r] \o MapSeq(order[r], LAMBDA d : DropIndex(d[1], d[2]))]
    /\ pc' = "push_create_indexes"
    /\ UNCHANGED <<index_flavour, fk_vars, params_vars, sqlite_vars>>
    /\ UNCHANGED <<schemas, flavour, tables_to_redefine, alter_indexes, redefine_indexes,
                   redefine_tables, alter_enums>>

PushCreateIndexes ==
    /\ pc = "push_create_indexes"
    /\ \E should_create_indexes_from_created_tables \in BOOLEAN, skips_unique_indexes \in BOOLEAN,
          indexes_should_be_recreated_after_column_drop \in BOOLEAN :
            Push(push_create_indexes(tables_to_redefine, should_create_indexes_from_created_tables,
                                     skips_unique_indexes,
                                     indexes_should_be_recreated_after_column_drop))
    /\ pc' = "push_altered_tables"
    /\ UNCHANGED <<index_flavour, fk_vars, params_vars, sqlite_vars>>
    /\ UNCHANGED <<schemas, flavour, tables_to_redefine, alter_indexes, redefine_indexes,
                   redefine_tables, alter_enums>>

PushAlteredTables ==
    /\ pc = "push_altered_tables"
    /\ \E can_cope \in BOOLEAN, referential_actions \in BOOLEAN, recreates_indexes \in BOOLEAN :
            Push(push_altered_tables(tables_to_redefine, can_cope, referential_actions,
                                     recreates_indexes))
    /\ pc' = "redefine_tables"
    /\ UNCHANGED <<index_flavour, fk_vars, params_vars, sqlite_vars>>
    /\ UNCHANGED <<schemas, flavour, tables_to_redefine, alter_indexes, redefine_indexes,
                   redefine_tables, alter_enums>>

RedefineTables ==
    /\ pc = "redefine_tables"
    /\ redefine_tables' = calculate_redefine_tables(tables_to_redefine)
    /\ pc' = "alter_enums"
    /\ UNCHANGED <<index_flavour, fk_vars, params_vars, sqlite_vars>>
    /\ UNCHANGED <<schemas, flavour, steps, tables_to_redefine, alter_indexes, redefine_indexes,
                   alter_enums>>

AlterEnums ==
    /\ pc = "alter_enums"
    /\ \E has_enums \in BOOLEAN :
            alter_enums' = push_previous_usages_as_defaults_in_altered_enums(
                                flavour_alter_enums(has_enums))
    /\ pc' = "create_enums"
    /\ UNCHANGED <<index_flavour, fk_vars, params_vars, sqlite_vars>>
    /\ UNCHANGED <<schemas, flavour, steps, tables_to_redefine, alter_indexes, redefine_indexes,
                   redefine_tables>>

CreateEnums ==
    /\ pc = "create_enums"
    /\ \E has_enums \in BOOLEAN : Push(flavour_create_enums(has_enums))
    /\ pc' = "drop_enums"
    /\ UNCHANGED <<index_flavour, fk_vars, params_vars, sqlite_vars>>
    /\ UNCHANGED <<schemas, flavour, tables_to_redefine, alter_indexes, redefine_indexes,
                   redefine_tables, alter_enums>>

DropEnums ==
    /\ pc = "drop_enums"
    /\ \E has_enums \in BOOLEAN : Push(flavour_drop_enums(has_enums))
    /\ pc' = "extend"
    /\ UNCHANGED <<index_flavour, fk_vars, params_vars, sqlite_vars>>
    /\ UNCHANGED <<schemas, flavour, tables_to_redefine, alter_indexes, redefine_indexes,
                   redefine_tables, alter_enums>>

ExtendSteps ==
    /\ pc = "extend"
    /\ Push(extended_steps)
    /\ pc' = "sort"
    /\ UNCHANGED <<index_flavour, fk_vars, params_vars, sqlite_vars>>
    /\ UNCHANGED <<schemas, flavour, tables_to_redefine, alter_indexes, redefine_indexes,
                   redefine_tables, alter_enums>>

SortSteps ==
    /\ pc = "sort"
    /\ steps' = [r \in Runs |-> sort_steps(steps[r])]
    /\ pc' = "done"
    /\ UNCHANGED <<index_flavour, fk_vars, params_vars, sqlite_vars>>
    /\ UNCHANGED <<schemas, flavour, tables_to_redefine, alter_indexes, redefine_indexes,
                   redefine_tables, alter_enums>>

Next ==
    \/ PushCreateTables
    \/ TablesToRedefine
    \/ AlterIndexes
    \/ DropTables
    \/ DropIndexes
    \/ PushCreateIndexes
    \/ PushAlteredTables
    \/ RedefineTables
    \/ AlterEnums
    \/ CreateEnums
    \/ DropEnums
    \/ ExtendSteps
    \/ SortSteps

Spec == Init /\ [][Next]_vars

(***************************************************************************)
(* foreign_keys_match on pairs of foreign keys.                            *)
(***************************************************************************)
\* Each foreign key of the pair differs from the base foreign key in at most
\* MaxFkEdits attributes.
MaxFkEdits == 2

\* The attributes of a table with the columns x and y and of its foreign key.
FkAttributes ==
    [x_family : {"Int", "String", "Uuid"},
     x_arity : {"required", "nullable", "list"},
     y_arity : {"required", "nullable"},
     columns : {<<"x">>, <<"x", "y">>, <<"y", "x">>},
     referenced_table : {"T", "U"},
     referenced_columns : {<<"p">>, <<"p", "q">>, <<"q", "p">>},
     actions : {<<"Cascade", "Cascade">>, <<"Restrict", "Cascade">>, <<"Cascade", "Restrict">>}]

BaseFkAttributes ==
    [x_family |-> "Int", x_arity |-> "required", y_arity |-> "required",
     columns |-> <<"x", "y">>, referenced_table |-> "T", referenced_columns |-> <<"p", "q">>,
     actions |-> <<"Cascade", "Cascade">>]

\* <<table, foreign key>>: what a ForeignKeyWalker reaches.
FkWalker(a) ==
    LET foreign_key == [ForeignKey(a.columns, a.referenced_table, a.referenced_columns)
                            EXCEPT !.on_delete_action = a.actions[1],
                                   !.on_update_action = a.actions[2]]
        table == [name |-> "S",
                  columns |-> <<Column("x", [family |-> a.x_family, enum |-> ""], a.x_arity, None),
                                Column("y", IntType, a.y_arity, None)>>,
                  primary_key |-> None,
                  indexes |-> <<>>,
                  foreign_keys |-> <<foreign_key>>]
    IN  <<table, foreign_key>>

FkWalkers ==
    {FkWalker(a) : a \in {b \in FkAttributes :
        Cardinality({f \in DOMAIN b : b[f] # BaseFkAttributes[f]}) <= MaxFkEdits}}

FkFlavours == [can_cope : BOOLEAN, referential_actions : BOOLEAN]

FkInit ==
    /\ fk_pair \in FkWalkers \X FkWalkers
    /\ fk_flavour \in FkFlavours
    /\ fk_matches = [forward |-> None, backward |-> None]
    /\ schemas = <<>>
    /\ flavour = <<>>
    /\ pc = "idle"
    /\ steps = <<>>
    /\ tables_to_redefine = {}
    /\ alter_indexes = <<>>
    /\ redefine_indexes = <<>>
    /\ redefine_tables = <<>>
    /\ alter_enums = <<>>
    /\ index_flavour = <<>>
    /\ ParamsIdle
    /\ SqliteIdle

\* foreign_keys_match(Pair{previous, next}, flavour)
MatchForward ==
    /\ fk_matches.forward = None
    /\ fk_matches' = [fk_matches EXCEPT !.forward =
            Some(foreign_keys_match(fk_pair, fk_flavour.can_cope, fk_flavour.referential_actions))]
    /\ UNCHANGED <<fk_pair, fk_flavour, differ_vars, params_vars, sqlite_vars>>

\* foreign_keys_match(Pair{next, previous}, flavour)
MatchBackward ==
    /\ fk_matches.backward = None
    /\ fk_matches' = [fk_matches EXCEPT !.backward =
            Some(foreign_keys_match(<<fk_pair[2], fk_pair[1]>>, fk_flavour.can_cope,
                                    fk_flavour.referential_actions))]
    /\ UNCHANGED <<fk_pair, fk_flavour, differ_vars, params_vars, sqlite_vars>>

FkNext ==
    \/ MatchForward
    \/ MatchBackward

FkSpec == FkInit /\ [][FkNext]_vars

(***************************************************************************)
(* SqliteParams::try_from on connection strings.  A string is a sequence   *)
(* of tokens: the separators "?", "&" and "=", the prefixes "file:" and    *)
(* "sqlite:", and atoms, which hold none of these.                         *)
(***************************************************************************)
\* A connection string starts with at most MaxSchemes prefixes and has at
\* most MaxItems items after its path.
MaxSchemes == 2

MaxItems == 2

\* The machine has at most MaxCpus physical cpus.
MaxCpus == 2

DEFAULT_SCHEMA_NAME == <<"quaint">>

SchemeTokens == {"file:", "sqlite:"}

KeyAtoms == {"connection_limit", "db_name", "socket_timeout", "other"}

ValueAtoms == {"4", "04", "0", "4294967296", "-1", "abc"}

PathAtoms == {"dev.db", "/etc"}

\* The unsigned decimal numerals among the atoms: the number each denotes, as
\* its decimal text and the count of bits it needs.
Numerals ==
    [n \in {"4", "04", "0", "4294967296"} |->
        CASE n \in {"4", "04"} -> [text |-> "4", bits |-> 3]
          [] n = "0" -> [text |-> "0", bits |-> 0]
          [] n = "4294967296" -> [text |-> "4294967296", bits |-> 33]]

\* A number of the machine's (num_cpus::get_physical() * 2 + 1).
SmallNumber(n) ==
    [text |-> ToString(n),
     bits |-> CHOOSE b \in 0..31 : n < 2^b /\ (b = 0 \/ n >= 2^(b - 1))]

\* The items a query string is made of: k=v, k, k=, the empty item and an
\* item with two "=".
QueryItems ==
    {<<k, "=", v>> : k \in KeyAtoms, v \in ValueAtoms}
        \cup {<<k>> : k \in KeyAtoms}
        \cup {<<k, "=">> : k \in KeyAtoms}
        \cup {<<>>, <<"db_name", "=", "abc", "=", "4">>}

RECURSIVE QueryStrings(_)
QueryStrings(n) ==
    IF n = 0 THEN {<<>>}
    ELSE IF n = 1 THEN {<<"?">> \o item : item \in QueryItems}
    ELSE {q \o <<sep>> \o item : q \in QueryStrings(n - 1), sep \in {"&", "?"}, item \in QueryItems}

RECURSIVE SchemePrefixes(_)
SchemePrefixes(n) ==
    IF n = 0 THEN {<<>>}
    ELSE {<<>>} \cup {<<t>> \o rest : t \in SchemeTokens, rest \in SchemePrefixes(n - 1)}

Urls ==
    {prefix \o <<path>> \o query :
        prefix \in SchemePrefixes(MaxSchemes), path \in PathAtoms,
        query \in UNION {QueryStrings(n) : n \in 0..MaxItems}}

Platforms ==
    [usize_bits : {32, 64}, num_cpus : 1..MaxCpus, directories : {{<<"/etc">>}}]

\* str::trim_start_matches: the prefix is removed as often as it is there.
RECURSIVE trim_start_matches(_, _)
trim_start_matches(string, prefix) ==
    IF Len(string) > 0 /\ string[1] = prefix
    THEN trim_start_matches(Tail(string), prefix)
    ELSE string

\* str::split: the parts between the separators, one more than there are
\* separators.
RECURSIVE split(_, _)
split(string, separator) ==
    IF \A i \in 1..Len(string) : string[i] # separator THEN <<string>>
    ELSE LET i == CHOOSE j \in 1..Len(string) :
                    string[j] = separator /\ \A k \in 1..(j - 1) : string[k] # separator
         IN  <<SubSeq(string, 1, i - 1)>> \o split(SubSeq(string, i + 1, Len(string)), separator)

\* str::parse for an unsigned integer of a width: None for a string that is
\* no numeral or needs more bits.
parse_unsigned(string, width) ==
    IF Len(string) = 1 /\ string[1] \in DOMAIN Numerals /\ Numerals[string[1]].bits <= width
    THEN Some(Numerals[string[1]])
    ELSE None

Panicked(line) == [tag |-> "Panic", line |-> line]

Err(error) == [tag |-> "Err", error |-> error]

Ok(params) == [tag |-> "Ok", params |-> params]

\* path.starts_with("file:") ... trim_start_matches
trimmed(string) ==
    IF Len(string) > 0 /\ string[1] = "file:"
    THEN trim_start_matches(string, "file:")
    ELSE trim_start_matches(string, "sqlite:")

\* The (key, value) pairs of the last part: Some(pairs), or None when an item
\* has no "=" and splitted[1] is out of bounds.
collect_params(path_parts) ==
    LET items == split(path_parts[Len(path_parts)], "&")
        splitted == [i \in 1..Len(items) |-> split(items[i], "=")]
    IN  IF \E i \in 1..Len(items) : Len(splitted[i]) < 2 THEN None
        ELSE Some([i \in 1..Len(items) |-> <<splitted[i][1], splitted[i][2]>>])

\* One turn of the loop over the pairs: the locals after it, or the error.
apply_param(locals, k, v, usize_bits) ==
    CASE k = <<"connection_limit">> ->
            LET as_int == parse_unsigned(v, usize_bits)
            IN  IF as_int = None THEN Err("InvalidConnectionArguments")
                ELSE [locals EXCEPT !.connection_limit = as_int[1]]
      [] k = <<"db_name">> -> [locals EXCEPT !.db_name = Some(v)]
      [] k = <<"socket_timeout">> ->
            LET as_int == parse_unsigned(v, 64)
            IN  IF as_int = None THEN Err("InvalidConnectionArguments")
                ELSE [locals EXCEPT !.socket_timeout = as_int[1]]
      [] OTHER -> locals

\* The loop over the pairs: it returns at the first error.
RECURSIVE apply_params(_, _, _)
apply_params(locals, pairs, usize_bits) ==
    IF Len(pairs) = 0 THEN locals
    ELSE LET after == apply_param(locals, pairs[1][1], pairs[1][2], usize_bits)
         IN  IF "tag" \in DOMAIN after THEN after
             ELSE apply_params(after, Tail(pairs), usize_bits)

\* Ok(Self { .. }): u32::try_from(connection_limit).unwrap() panics for a
\* number of more than 32 bits.
build_params(locals, path_str) ==
    IF locals.connection_limit.bits > 32 THEN Panicked(95)
    ELSE Ok([connection_limit |-> locals.connection_limit.text,
             file_path |-> path_str,
             db_name |-> IF locals.db_name = None THEN DEFAULT_SCHEMA_NAME ELSE locals.db_name[1],
             socket_timeout |-> locals.socket_timeout.text])

ParamsInit ==
    /\ url \in Urls
    /\ platform \in Platforms
    /\ try_from = [pc |-> "trim", path |-> <<>>, path_parts |-> <<>>, unsupported |-> <<>>,
                   locals |-> <<>>, result |-> None]
    /\ schemas = <<>>
    /\ flavour = <<>>
    /\ pc = "idle"
    /\ steps = <<>>
    /\ tables_to_redefine = {}
    /\ alter_indexes = <<>>
    /\ redefine_indexes = <<>>
    /\ redefine_tables = <<>>
    /\ alter_enums = <<>>
    /\ index_flavour = <<>>
    /\ FkIdle
    /\ SqliteIdle

Return(result) == try_from' = [try_from EXCEPT !.pc = "done", !.result = Some(result)]

TrimScheme ==
    /\ try_from.pc = "trim"
    /\ try_from' = [try_from EXCEPT !.pc = "split", !.path = trimmed(url)]
    /\ UNCHANGED <<url, platform, differ_vars, fk_vars, sqlite_vars>>

\* path.split('?'), path.is_dir() and the defaults of the locals.
SplitPath ==
    /\ try_from.pc = "split"
    /\ LET path_parts == split(try_from.path, "?")
       IN  IF path_parts[1] \in platform.directories
           THEN Return(Err("DatabaseUrlIsInvalid"))
           ELSE try_from' = [try_from EXCEPT
                    !.pc = "collect",
                    !.path_parts = path_parts,
                    !.locals = [connection_limit |-> SmallNumber(platform.num_cpus * 2 + 1),
                                db_name |-> None,
                                socket_timeout |-> SmallNumber(5)]]
    /\ UNCHANGED <<url, platform, differ_vars, fk_vars, sqlite_vars>>

\* if path_parts.len() > 1 { ... .collect() ... .partition(..) }: official is
\* empty, so every pair is unsupported.
CollectParams ==
    /\ try_from.pc = "collect"
    /\ IF Len(try_from.path_parts) > 1
       THEN LET collected == collect_params(try_from.path_parts)
            IN  IF collected = None THEN Return(Panicked(64))
                ELSE try_from' = [try_from EXCEPT !.pc = "apply", !.unsupported = collected[1]]
       ELSE try_from' = [try_from EXCEPT !.pc = "build"]
    /\ UNCHANGED <<url, platform, differ_vars, fk_vars, sqlite_vars>>

ApplyParams ==
    /\ try_from.pc = "apply"
    /\ LET after == apply_params(try_from.locals, try_from.unsupported, platform.usize_bits)
       IN  IF "tag" \in DOMAIN after THEN Return(after)
           ELSE try_from' = [try_from EXCEPT !.pc = "build", !.locals = after]
    /\ UNCHANGED <<url, platform, differ_vars, fk_vars, sqlite_vars>>

BuildParams ==
    /\ try_from.pc = "build"
    /\ Return(build_params(try_from.locals, try_from.path_parts[1]))
    /\ UNCHANGED <<url, platform, differ_vars, fk_vars, sqlite_vars>>

ParamsNext ==
    \/ TrimScheme
    \/ SplitPath
    \/ CollectParams
    \/ ApplyParams
    \/ BuildParams

ParamsSpec == ParamsInit /\ [][ParamsNext]_vars

(***************************************************************************)
(* The Sqlite adapter (sqlite.rs, lines 17-22 and 125-191): one            *)
(* rusqlite::Connection behind a std::sync::Mutex, used by callers of      *)
(* query_raw, raw_cmd and attach_database.  A caller is at a line of the   *)
(* source: pc "lock" is the call of self.client.lock() that has not         *)
(* returned yet, pc "driver" is the driver call of that line.  The guard   *)
(* returned by lock() is a local of the operation: it is dropped, and the  *)
(* mutex unlocked, wherever the operation returns or unwinds.              *)
(***************************************************************************)
NumCallers == 3

MaxRows == 1

Callers == 1 .. NumCallers

Operations == {"query_raw", "raw_cmd", "attach_database"}

\* let client = self.client.lock().unwrap();
lock_line(op) ==
    CASE op = "query_raw" -> 160
      [] op = "raw_cmd" -> 184
      [] op = "attach_database" -> 126

\* The first driver call after the lock is taken.
first_line(op) ==
    CASE op = "query_raw" -> 161
      [] op = "raw_cmd" -> 186
      [] op = "attach_database" -> 127

\* The driver calls that end the operation with Err through `?` (or through
\* the match of raw_cmd) when the driver fails.
FallibleLines == {161, 163, 166, 167, 186, 127, 130, 139, 142}

\* The callers a successful driver call at `caller.line` leads to; line 0 is
\* the return of Ok.  stmt.query (163) yields a result set of at most MaxRows
\* rows, rows.next (166) hands them out one at a time; databases.contains
\* (138) decides between ATTACH DATABASE (139) and PRAGMA foreign_keys (142).
after_driver_call(caller) ==
    LET line == caller.line
        at(l) == [caller EXCEPT !.line = l]
    IN  CASE line = 161 -> {at(163)}
          [] line = 163 -> {[caller EXCEPT !.line = 166, !.rows = n] : n \in 0 .. MaxRows}
          [] line = 166 -> IF caller.rows > 0
                           THEN {[caller EXCEPT !.line = 167, !.rows = @ - 1]}
                           ELSE {at(170)}
          [] line = 167 -> {at(166)}
          [] line = 170 -> {at(0)}
          [] line = 186 -> {at(0)}
          [] line = 127 -> {at(130)}
          [] line = 130 -> {at(135)}
          [] line = 135 -> {at(139), at(142)}
          [] line = 139 -> {at(142)}
          [] line = 142 -> {at(0)}

IdleCaller(result) == [pc |-> "idle", op |-> "", line |-> 0, rows |-> 0, result |-> result]

\* The caller is inside an operation: it holds a borrow of the adapter.
Borrows(c) == callers[c].pc \in {"lock", "driver"}

SqliteInit ==
    /\ client = [holder |-> None, poisoned |-> FALSE]
    /\ callers = [c \in Callers |-> IdleCaller("none")]
    /\ schemas = <<>>
    /\ flavour = <<>>
    /\ pc = "idle"
    /\ steps = <<>>
    /\ tables_to_redefine = {}
    /\ alter_indexes = <<>>
    /\ redefine_indexes = <<>>
    /\ redefine_tables = <<>>
    /\ alter_enums = <<>>
    /\ index_flavour = <<>>
    /\ FkIdle
    /\ ParamsIdle

\* A caller enters an operation.  query_raw and raw_cmd take &self,
\* attach_database takes &mut self (line 125): the borrow checker admits it
\* only while no other borrow of the adapter is alive, and admits no other
\* operation while it runs.
Call(c, op) ==
    /\ callers[c].pc = "idle"
    /\ IF op = "attach_database"
       THEN \A d \in Callers : ~Borrows(d)
       ELSE \A d \in Callers : ~(Borrows(d) /\ callers[d].op = "attach_database")
    /\ callers' = [callers EXCEPT ![c] =
            [pc |-> "lock", op |-> op, line |-> lock_line(op), rows |-> 0, result |-> "none"]]
    /\ UNCHANGED <<client, differ_vars, fk_vars, params_vars>>

\* self.client.lock().unwrap(): lock() blocks while another guard is alive.
\* On a poisoned mutex it returns Err(PoisonError), unwrap panics and the
\* guard inside the error is dropped.
Lock(c) ==
    /\ callers[c].pc = "lock"
    /\ client.holder = None
    /\ IF client.poisoned
       THEN /\ callers' = [callers EXCEPT ![c].pc = "panicked", ![c].result = "Panic"]
            /\ UNCHANGED client
       ELSE /\ callers' = [callers EXCEPT ![c].pc = "driver", ![c].line = first_line(callers[c].op)]
            /\ client' = [client EXCEPT !.holder = Some(c)]
    /\ UNCHANGED <<differ_vars, fk_vars, params_vars>>

\* A driver call on the connection succeeds; after the last one the
\* operation returns Ok and the guard is dropped.
DriverCall(c) ==
    /\ callers[c].pc = "driver"
    /\ \E after \in after_driver_call(callers[c]) :
          IF after.line = 0
          THEN /\ callers' = [callers EXCEPT ![c] = IdleCaller("Ok")]
               /\ client' = [client EXCEPT !.holder = None]
          ELSE /\ callers' = [callers EXCEPT ![c] = after]
               /\ UNCHANGED client
    /\ UNCHANGED <<differ_vars, fk_vars, params_vars>>

\* DriverError with the guard kept alive after the return.
DriverError_keeping_guard(c) ==
    /\ callers[c].pc = "driver"
    /\ callers[c].line \in FallibleLines
    /\ callers' = [callers EXCEPT ![c] = IdleCaller("Err")]
    /\ UNCHANGED <<client, differ_vars, fk_vars, params_vars>>

\* A driver call fails: `?` returns the error and the guard is dropped.
DriverError(c) ==
    /\ callers[c].pc = "driver"
    /\ callers[c].line \in FallibleLines
    /\ callers' = [callers EXCEPT ![c] = IdleCaller("Err")]
    /\ client' = [client EXCEPT !.holder = None]
    /\ UNCHANGED <<differ_vars, fk_vars, params_vars>>

\* .map(|res| res.unwrap()) (line 135): a row that cannot be read makes
\* attach_database panic; the guard is dropped while the thread panics,
\* which unlocks the mutex and poisons it.
UnwrapPanics(c) ==
    /\ callers[c].pc = "driver"
    /\ callers[c].line = 135
    /\ callers' = [callers EXCEPT ![c].pc = "panicked", ![c].result = "Panic"]
    /\ client' = [holder |-> None, poisoned |-> TRUE]
    /\ UNCHANGED <<differ_vars, fk_vars, params_vars>>

SqliteNext ==
    \/ \E c \in Callers, op \in Operations : Call(c, op)
    \/ \E c \in Callers : Lock(c)
    \/ \E c \in Callers : DriverCall(c)
    \/ \E c \in Callers : DriverError(c)
    \/ \E c \in Callers : UnwrapPanics(c)

SqliteSpec == SqliteInit /\ [][SqliteNext]_vars

\* Scheduling: a driver call returns (the connection's busy_timeout bounds
\* it, line 111), and a caller blocked in lock() is woken when the mutex is
\* unlocked and is not passed over for ever.
SqliteFairSpec ==
    /\ SqliteSpec
    /\ \A c \in Callers : WF_vars(DriverCall(c) \/ DriverError(c) \/ UnwrapPanics(c))
    /\ \A c \in Callers : SF_vars(Lock(c))

(***************************************************************************)
(* Properties of the plan calculate_steps returns.                         *)
(***************************************************************************)
Done == pc = "done"

\* The positions of the steps of a kind in the plan of run r.
StepsOfKind(r, kind) == {i \in 1..Len(steps[r]) : steps[r][i].kind = kind}

\* The names of the paired tables (as the next schema names them).
PairedTableNames == {next_table(tables).name : tables \in Range(table_pairs)}

\* The places <<step, change>> of the TableChanges of a kind for a pair of
\* column ids in the AlterTable steps of a table pair.
ColumnChangesAt(r, tables, columns, kind) ==
    {ij \in UNION {{<<i, j>> : j \in 1..Len(steps[r][i].changes)} : i \in StepsOfKind(r, "AlterTable")} :
        /\ steps[r][ij[1]].table_ids = tables
        /\ steps[r][ij[1]].changes[ij[2]].kind = kind
        /\ steps[r][ij[1]].changes[ij[2]].column_id = columns}

C3_DropForeignKeyBeforeDropTable ==
    Done => \A r \in Runs :
        \A i \in StepsOfKind(r, "DropForeignKey"), j \in StepsOfKind(r, "DropTable") :
            steps[r][i].table_id = steps[r][j].table_id => i < j

C3_Witness ==
    /\ Done
    /\ \E i \in StepsOfKind(1, "DropForeignKey"), j \in StepsOfKind(1, "DropTable") :
            steps[1][i].table_id = steps[1][j].table_id /\ i < j

\* The name of the table a foreign key added by an AddForeignKey step references.
ReferencedTableOf(step) ==
    table_walker_at(NextSchema, step.table_id).foreign_keys[step.foreign_key_index + 1].referenced_table

\* Whether an AddForeignKey step belongs to or references the table of a CreateTable step.
ForeignKeyTouches(add, create) ==
    \/ add.table_id = create.table_id
    \/ ReferencedTableOf(add) = table_walker_at(NextSchema, create.table_id).name

\* C4: in the returned sequence the CreateTable of a table comes before every
\* AddForeignKey whose foreign key belongs to it or references it, those of
\* altered tables included.
C4_CreateTableBeforeAddForeignKey ==
    Done => \A r \in Runs :
        \A i \in StepsOfKind(r, "CreateTable"), j \in StepsOfKind(r, "AddForeignKey") :
            ForeignKeyTouches(steps[r][j], steps[r][i]) => i < j

\* A table is created and a paired table gains a foreign key to it.
C4_Witness ==
    /\ Done
    /\ \E i \in StepsOfKind(1, "CreateTable"), j \in StepsOfKind(1, "AddForeignKey") :
            /\ steps[1][j].table_id \in {tables[2] : tables \in Range(table_pairs)}
            /\ ReferencedTableOf(steps[1][j]) = table_walker_at(NextSchema, steps[1][i].table_id).name
            /\ i < j

\* The place of a kind of TableChange in the canonical order.
TableChangeRank(change) ==
    CASE change.kind = "DropPrimaryKey" -> 1
      [] change.kind = "DropColumn" -> 2
      [] change.kind = "AddColumn" -> 3
      [] change.kind \in {"AlterColumn", "DropAndRecreateColumn"} -> 4
      [] change.kind = "AddPrimaryKey" -> 5

IsColumnAlteration(change) == change.kind \in {"AlterColumn", "DropAndRecreateColumn"}

CanonicalOrder(changes) ==
    /\ \A i, j \in 1..Len(changes) :
            i < j => TableChangeRank(changes[i]) <= TableChangeRank(changes[j])
    /\ Cardinality({i \in 1..Len(changes) : changes[i].kind = "DropPrimaryKey"}) <= 1
    /\ Cardinality({i \in 1..Len(changes) : changes[i].kind = "AddPrimaryKey"}) <= 1
    /\ \A i, j \in 1..Len(changes) :
            (i < j /\ IsColumnAlteration(changes[i]) /\ IsColumnAlteration(changes[j]))
                => PairLeq(changes[i].column_id, changes[j].column_id)

\* C5: the changes of every AlterTable step are in the canonical order: at most
\* one DropPrimaryKey, the DropColumns, the AddColumns, the AlterColumns and
\* DropAndRecreateColumns ascending by (previous, next) column id, at most one
\* AddPrimaryKey.
C5_CanonicalOrder ==
    Done => \A r \in Runs : \A i \in StepsOfKind(r, "AlterTable") :
        CanonicalOrder(steps[r][i].changes)

\* An AlterTable between DropPrimaryKey and AddPrimaryKey alters two columns
\* whose names are not in the order of their ids.
C5_Witness ==
    /\ Done
    /\ \E i \in StepsOfKind(1, "AlterTable") :
        LET changes == steps[1][i].changes
        IN  /\ changes[1].kind = "DropPrimaryKey"
            /\ changes[Len(changes)].kind = "AddPrimaryKey"
            /\ Cardinality({j \in 1..Len(changes) : IsColumnAlteration(changes[j])}) = 2
            /\ column_pairs(steps[1][i].table_ids) = <<<<1, 1>>, <<0, 0>>>>

\* The column pairs <<tables, columns>> whose type change is NotCastable.
NotCastablePairs ==
    UNION {{<<tables, columns>> : columns \in {x \in Range(column_pairs(tables)) :
                all_changes(tables, x)[2] = Some("NotCastable")}} : tables \in Range(table_pairs)}

\* C6, as stated: for every column pair of every paired table whose type change
\* is NotCastable the plan has exactly one DropAndRecreateColumn and no
\* AlterColumn, also for a table in tables_to_redefine.
C6_DropAndRecreateForEveryTable ==
    Done => \A r \in Runs : \A tc \in NotCastablePairs :
        /\ Cardinality(ColumnChangesAt(r, tc[1], tc[2], "DropAndRecreateColumn")) = 1
        /\ ColumnChangesAt(r, tc[1], tc[2], "AlterColumn") = {}

\* Whether a RedefineTables step of the plan records the NotCastable change.
RedefinedAsNotCastable(r, tables, columns) ==
    \E i \in StepsOfKind(r, "RedefineTables") :
        \E e \in 1..Len(steps[r][i].tables) :
            /\ steps[r][i].tables[e].table_ids = tables
            /\ \E c \in 1..Len(steps[r][i].tables[e].column_pairs) :
                    /\ steps[r][i].tables[e].column_pairs[c][1] = columns
                    /\ steps[r][i].tables[e].column_pairs[c][3] = Some("NotCastable")

\* C6, amended: for a column pair whose type change is NotCastable, in a paired
\* table not in tables_to_redefine the plan has exactly one
\* DropAndRecreateColumn and no AlterColumn; in a table in tables_to_redefine it
\* has neither, and the table's RedefineTable records the pair as NotCastable.
C6_CastabilityTriage ==
    Done => \A r \in Runs : \A tc \in NotCastablePairs :
        /\ ColumnChangesAt(r, tc[1], tc[2], "AlterColumn") = {}
        /\ IF not_redefined(tables_to_redefine, tc[1])
           THEN Cardinality(ColumnChangesAt(r, tc[1], tc[2], "DropAndRecreateColumn")) = 1
           ELSE /\ ColumnChangesAt(r, tc[1], tc[2], "DropAndRecreateColumn") = {}
                /\ RedefinedAsNotCastable(r, tc[1], tc[2])

\* NotCastable changes in a table that is redefined and in one that is not.
C6_Witness ==
    /\ Done
    /\ \E tc \in NotCastablePairs :
            /\ not_redefined(tables_to_redefine, tc[1])
            /\ ColumnChangesAt(1, tc[1], tc[2], "DropAndRecreateColumn") # {}
    /\ \E tc \in NotCastablePairs :
            /\ ~not_redefined(tables_to_redefine, tc[1])
            /\ RedefinedAsNotCastable(1, tc[1], tc[2])

\* The column pairs <<tables, columns>> that differ in nothing.
UnchangedPairs ==
    UNION {{<<tables, columns>> : columns \in {x \in Range(column_pairs(tables)) :
                ~differs_in_something(all_changes(tables, x)[1])}} : tables \in Range(table_pairs)}

\* The index pairs <<tables, indexes>> all of whose columns differ in nothing.
UnchangedIndexPairs ==
    UNION {{<<tables, ix>> : ix \in {x \in Range(index_pairs(tables)) :
                \A c \in Range(next_table(tables).indexes[x[2] + 1].columns) :
                    <<tables, <<ColumnIdOf(previous_table(tables), c), ColumnIdOf(next_table(tables), c)>> >>
                        \in UnchangedPairs}} : tables \in Range(table_pairs)}

\* C7: a column pair that differs in nothing gets no AlterColumn and no
\* DropAndRecreateColumn, and a paired index over such columns only is neither
\* dropped nor created again.
C7_NoStepForUnchangedColumn ==
    Done => \A r \in Runs :
        /\ \A tc \in UnchangedPairs :
            /\ ColumnChangesAt(r, tc[1], tc[2], "AlterColumn") = {}
            /\ ColumnChangesAt(r, tc[1], tc[2], "DropAndRecreateColumn") = {}
        /\ \A ti \in UnchangedIndexPairs :
            /\ \A i \in StepsOfKind(r, "CreateIndex") :
                ~(steps[r][i].table_id = <<Some(ti[1][1]), ti[1][2]>> /\ steps[r][i].index_index = ti[2][2])
            /\ \A i \in StepsOfKind(r, "DropIndex") :
                ~(steps[r][i].table_id = ti[1][1] /\ steps[r][i].index_index = ti[2][1])

\* A table is altered and its indexes are created again for a changed column,
\* while another of its columns, with an index of its own, differs in nothing.
C7_Witness ==
    /\ Done
    /\ \E i \in StepsOfKind(1, "AlterTable"), j \in StepsOfKind(1, "CreateIndex") :
        /\ steps[1][j].table_id = <<Some(steps[1][i].table_ids[1]), steps[1][i].table_ids[2]>>
        /\ \E ti \in UnchangedIndexPairs : ti[1] = steps[1][i].table_ids
        /\ \E tc \in UnchangedPairs : tc[1] = steps[1][i].table_ids

\* Whether the changes of an AlterTable drop and recreate a column of the
\* previous primary key.
RecreatesPrimaryKeyColumn(step) ==
    \E j \in 1..Len(step.changes) :
        /\ step.changes[j].kind = "DropAndRecreateColumn"
        /\ is_part_of_primary_key(previous_table(step.table_ids), step.changes[j].column_id[1])

PrimaryKeyUnchanged(tables) ==
    previous_table(tables).primary_key = next_table(tables).primary_key

\* C8: under a flavour that recreates the primary key on column recreate, an
\* AlterTable that drops and recreates a column of the previous primary key
\* starts with DropPrimaryKey and ends with AddPrimaryKey; under a flavour that
\* does not, an AlterTable of a table whose primary key is unchanged has
\* neither.
C8_PrimaryKeyRecreation ==
    Done => \A r \in Runs : \A i \in StepsOfKind(r, "AlterTable") :
        LET step == steps[r][i]
        IN  /\ (flavour.should_recreate_the_primary_key_on_column_recreate
                    /\ RecreatesPrimaryKeyColumn(step))
                => (/\ step.changes[1].kind = "DropPrimaryKey"
                    /\ step.changes[Len(step.changes)].kind = "AddPrimaryKey")
            /\ (~flavour.should_recreate_the_primary_key_on_column_recreate
                    /\ PrimaryKeyUnchanged(step.table_ids))
                => \A j \in 1..Len(step.changes) :
                        step.changes[j].kind \notin {"DropPrimaryKey", "AddPrimaryKey"}

\* The primary key is recreated although its definition is unchanged.
C8_Witness ==
    /\ Done
    /\ flavour.should_recreate_the_primary_key_on_column_recreate
    /\ \E i \in StepsOfKind(1, "AlterTable") :
        /\ RecreatesPrimaryKeyColumn(steps[1][i])
        /\ PrimaryKeyUnchanged(steps[1][i].table_ids)
        /\ steps[1][i].changes[1].kind = "DropPrimaryKey"

\* The entries of a table pair in the RedefineTables steps of the plan, as
\* <<step, entry>>.
RedefineEntries(r, tables) ==
    UNION {{<<i, e>> : e \in {x \in 1..Len(steps[r][i].tables) :
                steps[r][i].tables[x].table_ids = tables}} : i \in StepsOfKind(r, "RedefineTables")}

\* C9: when tables_to_redefine contains the name of a paired table, the plan
\* has exactly one RedefineTables step, with exactly one entry for that table,
\* and no AlterTable and no AddForeignKey for it; when it contains the name of
\* no paired table the plan has no RedefineTables step.
C9_RedefineTables ==
    Done => \A r \in Runs :
        /\ \A tables \in Range(table_pairs) :
            ~not_redefined(tables_to_redefine, tables) =>
                /\ Cardinality(StepsOfKind(r, "RedefineTables")) = 1
                /\ Cardinality(RedefineEntries(r, tables)) = 1
                /\ \A i \in StepsOfKind(r, "AlterTable") : steps[r][i].table_ids # tables
                /\ \A i \in StepsOfKind(r, "AddForeignKey") : steps[r][i].table_id # tables[2]
        /\ (tables_to_redefine \cap PairedTableNames = {}) => StepsOfKind(r, "RedefineTables") = {}

\* A redefined table has a changed column and gained a foreign key.
C9_Witness ==
    /\ Done
    /\ \E tables \in Range(table_pairs) :
        /\ ~not_redefined(tables_to_redefine, tables)
        /\ RedefineEntries(1, tables) # {}
        /\ \E columns \in Range(column_pairs(tables)) :
                differs_in_something(all_changes(tables, columns)[1])
        /\ Len(next_table(tables).foreign_keys) > Len(previous_table(tables).foreign_keys)

\* The previous columns, as <<table id, column id>>, with the type of the enum
\* of that name and a default.
PreviousUsagesAsDefault(enum_name) ==
    UNION {{<<t - 1, c - 1>> : c \in {x \in 1..Len(PreviousSchema.tables[t].columns) :
                /\ PreviousSchema.tables[t].columns[x].tpe = EnumType(enum_name)
                /\ PreviousSchema.tables[t].columns[x].default # None}}
           : t \in 1..Len(PreviousSchema.tables)}

\* The next columns, as <<table id, column id>>, that have the names of the
\* table and of the column of a previous column, the type of the enum of that
\* name and a default.
NextUsagesAsDefault(usage, enum_name) ==
    LET previous == PreviousSchema.tables[usage[1] + 1]
    IN  UNION {{<<t - 1, c - 1>> : c \in {x \in 1..Len(NextSchema.tables[t].columns) :
                /\ NextSchema.tables[t].name = previous.name
                /\ NextSchema.tables[t].columns[x].name = previous.columns[usage[2] + 1].name
                /\ NextSchema.tables[t].columns[x].tpe = EnumType(enum_name)
                /\ NextSchema.tables[t].columns[x].default # None}}
               : t \in 1..Len(NextSchema.tables)}

\* C10: every previous column that has the type of the enum of an AlterEnum
\* step and a default is the first component of an entry of its
\* previous_usages_as_default; the second component of such an entry is the
\* paired next column when that still has the enum type and a default, and None
\* otherwise.
C10_EnumDefaultPreservation ==
    Done => \A r \in Runs : \A i \in StepsOfKind(r, "AlterEnum") :
        LET alter_enum == steps[r][i].alter_enum
            usages == alter_enum.previous_usages_as_default
            previous_name == PreviousSchema.enums[alter_enum.index[1] + 1].name
            next_name == NextSchema.enums[alter_enum.index[2] + 1].name
        IN  \A usage \in PreviousUsagesAsDefault(previous_name) :
                /\ \E e \in 1..Len(usages) : usages[e][1] = usage
                /\ \A e \in 1..Len(usages) :
                    usages[e][1] = usage =>
                        \/ /\ NextUsagesAsDefault(usage, next_name) = {}
                           /\ usages[e][2] = None
                        \/ /\ usages[e][2] # None
                           /\ NextUsagesAsDefault(usage, next_name) = {usages[e][2][1]}

\* An altered enum is the default of a column that keeps it.
C10_Witness ==
    /\ Done
    /\ \E i \in StepsOfKind(1, "AlterEnum") :
        \E e \in 1..Len(steps[1][i].alter_enum.previous_usages_as_default) :
            steps[1][i].alter_enum.previous_usages_as_default[e][2] # None

\* Both directions of foreign_keys_match have been evaluated.
FkMatched == fk_matches.forward # None /\ fk_matches.backward # None

\* C11: under a flavour that can cope with a foreign-key column becoming
\* non-nullable, foreign keys that match as (a, b) match as (b, a), with or
\* without the ReferentialActions preview feature.
C11_ForeignKeyMatchingSymmetry ==
    (FkMatched /\ fk_flavour.can_cope /\ fk_matches.forward = Some(TRUE))
        => fk_matches.backward = Some(TRUE)

\* Foreign keys whose first column goes from nullable to required, and from
\* Uuid to String, match in both directions.
C11_Witness ==
    /\ FkMatched
    /\ fk_flavour.can_cope
    /\ fk_pair[1][1].columns[1].arity = "nullable"
    /\ fk_pair[2][1].columns[1].arity = "required"
    /\ fk_pair[1][1].columns[1].tpe.family = "Uuid"
    /\ fk_pair[2][1].columns[1].tpe.family = "String"
    /\ fk_matches.forward = Some(TRUE)
    /\ fk_matches.backward = Some(TRUE)

CreateKinds == {"CreateEnum", "CreateTable", "CreateIndex"}

AlterKinds == {"AlterEnum", "AlterTable", "AlterIndex"}

DropKinds == {"DropForeignKey", "DropIndex", "DropTable", "DropEnum"}

\* Whether every step of kind a is to come before every step of kind b.
KindBefore(a, b) ==
    \/ a \in CreateKinds /\ b \in AlterKinds \cup DropKinds
    \/ a \in AlterKinds /\ b \in DropKinds
    \/ a = "CreateTable" /\ b = "AddForeignKey"
    \/ a = "DropForeignKey" /\ b = "DropTable"

KindsInOrder(plan) ==
    \A i, j \in 1..Len(plan) : i < j => ~KindBefore(plan[j].kind, plan[i].kind)

\* The plan has the steps of the buffer, those of each kind in the order of the buffer.
SameKindOrderKept(buffer, plan) ==
    /\ Len(plan) = Len(buffer)
    /\ \A k \in Range(StepKindOrder) :
            SelectSeq(plan, LAMBDA step : step.kind = k)
                = SelectSeq(buffer, LAMBDA step : step.kind = k)

Returned == try_from.pc = "done"

Result == try_from.result[1]

\* The connection string read as [file:|sqlite:]PATH[?k=v&...]: what follows
\* the scheme, the place of the first "?" in it (0 when there is none), PATH
\* and the items of the query string.
AfterScheme == IF Len(url) > 0 /\ url[1] \in SchemeTokens THEN Tail(url) ELSE url

FirstQuestionMark ==
    IF \A i \in 1..Len(AfterScheme) : AfterScheme[i] # "?" THEN 0
    ELSE CHOOSE i \in 1..Len(AfterScheme) :
            AfterScheme[i] = "?" /\ \A j \in 1..(i - 1) : AfterScheme[j] # "?"

FormPath ==
    IF FirstQuestionMark = 0 THEN AfterScheme ELSE SubSeq(AfterScheme, 1, FirstQuestionMark - 1)

FormItems ==
    IF FirstQuestionMark = 0 THEN <<>>
    ELSE split(SubSeq(AfterScheme, FirstQuestionMark + 1, Len(AfterScheme)), "&")

\* The query string, if any, is made of items k=v, with one "?" before it.
QueryOfPairs ==
    /\ Cardinality({i \in 1..Len(AfterScheme) : AfterScheme[i] = "?"}) <= 1
    /\ \A i \in 1..Len(FormItems) :
            /\ Len(FormItems[i]) = 3
            /\ FormItems[i][1] \in KeyAtoms
            /\ FormItems[i][2] = "="
            /\ FormItems[i][3] \in ValueAtoms

\* The values the items give a key.
ValuesOf(key) == {FormItems[i][3] : i \in {j \in 1..Len(FormItems) : FormItems[j][1] = key}}

\* No part of the connection string is the name of a directory.
NamesNoDirectory ==
    \A i \in 1..Len(url) : <<url[i]>> \notin platform.directories

\* C13: on a string [file:|sqlite:]PATH[?k=v&...] whose PATH is no directory
\* (here: that names none) and whose connection_limit and socket_timeout are
\* numerals, try_from returns params with file_path = PATH, with
\* connection_limit, db_name and socket_timeout as the items of those names
\* give them, and with db_name = "quaint" and socket_timeout = 5 seconds when
\* no item gives them.
C13_ParamsFromConnectionString ==
    (/\ Returned
     /\ QueryOfPairs
     /\ NamesNoDirectory
     /\ ValuesOf("connection_limit") \cup ValuesOf("socket_timeout") \subseteq DOMAIN Numerals)
    => /\ Result.tag = "Ok"
       /\ Result.params.file_path = FormPath
       /\ ValuesOf("connection_limit") # {}
            => Result.params.connection_limit
                    \in {Numerals[v].text : v \in ValuesOf("connection_limit")}
       /\ Result.params.db_name
            \in IF ValuesOf("db_name") = {} THEN {DEFAULT_SCHEMA_NAME}
                ELSE {<<v>> : v \in ValuesOf("db_name")}
       /\ Result.params.socket_timeout
            \in IF ValuesOf("socket_timeout") = {} THEN {"5"}
                ELSE {Numerals[v].text : v \in ValuesOf("socket_timeout")}

\* The numerals that denote a positive integer.
PositiveNumerals == {n \in DOMAIN Numerals : Numerals[n].text # "0"}

\* C14, for query strings made of items k=v after a path of one atom:
\* try_from fails with DatabaseUrlIsInvalid when the path is a directory,
\* whatever the query string holds, and with InvalidConnectionArguments when
\* connection_limit is no positive integer or socket_timeout is no integer.
C14_InvalidConnectionStrings ==
    Returned =>
        /\ FormPath \in platform.directories => Result = Err("DatabaseUrlIsInvalid")
        /\ (/\ FormPath \notin platform.directories
            /\ Len(FormPath) = 1
            /\ QueryOfPairs
            /\ \/ ~(ValuesOf("connection_limit") \subseteq PositiveNumerals)
               \/ ~(ValuesOf("socket_timeout") \subseteq DOMAIN Numerals))
            => Result = Err("InvalidConnectionArguments")

\* C19: for every string try_from returns Ok(params), DatabaseUrlIsInvalid or
\* InvalidConnectionArguments, and never aborts.
C19_TryFromIsTotal ==
    Returned => Result.tag \in {"Ok", "Err"}

\* A caller is executing a driver call on the connection.
Executing(c) == callers[c].pc = "driver"

\* A caller has called lock() and lock() has not returned.
Waiting(c) == callers[c].pc = "lock"

EqualButArity ==
    /\ fk_pair[1][2] = fk_pair[2][2]
    /\ \A i \in DOMAIN fk_pair[1][1].columns :
          /\ fk_pair[1][1].columns[i].name = fk_pair[2][1].columns[i].name
          /\ fk_pair[1][1].columns[i].tpe = fk_pair[2][1].columns[i].tpe

\* The arities of the constrained columns of a side of fk_pair, in the order
\* of the foreign key.
ConstrainedArities(side) ==
    LET table == fk_pair[side][1]
        names == fk_pair[side][2].columns
        arity(name) == (CHOOSE column \in {table.columns[i] : i \in DOMAIN table.columns} :
                            column.name = name).arity
    IN  [i \in DOMAIN names |-> arity(names[i])]

\* C16: for two foreign keys equal in every other respect, under a flavour
\* that cannot cope with a foreign-key column becoming non-nullable they
\* match iff every positional pair of constrained columns has identical
\* arities or goes from required to nullable; under a flavour that can cope
\* they match whatever the arities.
C16_ForeignKeyArity ==
    (fk_matches.forward # None /\ EqualButArity) =>
        fk_matches.forward =
            Some(\/ fk_flavour.can_cope
                 \/ \A i \in DOMAIN ConstrainedArities(1) :
                        \/ ConstrainedArities(1)[i] = ConstrainedArities(2)[i]
                        \/ /\ ConstrainedArities(1)[i] = "required"
                           /\ ConstrainedArities(2)[i] = "nullable")

\* Under a flavour that cannot cope, a foreign key whose column goes from
\* nullable to required does not match, and matches in the other direction.
C16_Witness ==
    /\ FkMatched
    /\ EqualButArity
    /\ ~fk_flavour.can_cope
    /\ \E i \in DOMAIN ConstrainedArities(1) :
          ConstrainedArities(1)[i] = "nullable" /\ ConstrainedArities(2)[i] = "required"
    /\ fk_matches.forward = Some(FALSE)
    /\ fk_matches.backward = Some(TRUE)

\* The positions in the plan of run r of the steps of that kind for that index
\* pair of that table pair.
IndexSteps(r, kind, tables, ix) ==
    {i \in 1..Len(steps[r]) :
        /\ steps[r][i].kind = kind
        /\ steps[r][i].table = tables
        /\ steps[r][i].index = ix}

\* The positions in the plan of run r of the AlterIndex and RedefineIndex steps
\* of that table pair.
IndexStepsOfTable(r, tables) ==
    {i \in 1..Len(steps[r]) :
        /\ steps[r][i].kind \in {"AlterIndex", "RedefineIndex"}
        /\ steps[r][i].table = tables}

\* C17: for every index pair of a paired table not in tables_to_redefine of
\* which index_should_be_renamed holds, the plan has one AlterIndex and no
\* RedefineIndex when can_alter_index() is true, one RedefineIndex and no
\* AlterIndex when it is false; it has no AlterIndex and no RedefineIndex for
\* a table in tables_to_redefine.
C17_IndexRenamesInOneForm ==
    Done =>
        \A r \in Runs : \A j \in DOMAIN table_pairs :
            LET tables == table_pairs[j]
            IN  IF not_redefined(tables_to_redefine, tables)
                THEN \A k \in DOMAIN index_pairs(tables) :
                        LET ix == index_pairs(tables)[k]
                        IN  index_should_be_renamed(tables, ix, index_flavour.renamed) =>
                                /\ Cardinality(IndexSteps(r, "AlterIndex", tables, ix))
                                        = (IF index_flavour.can_alter_index THEN 1 ELSE 0)
                                /\ Cardinality(IndexSteps(r, "RedefineIndex", tables, ix))
                                        = (IF index_flavour.can_alter_index THEN 0 ELSE 1)
                ELSE IndexStepsOfTable(r, tables) = {}

\* A plan with a RedefineIndex for a renamed index of a paired table that is
\* not redefined, under a flavour that cannot alter indexes.
C17_Witness ==
    /\ Done
    /\ ~index_flavour.can_alter_index
    /\ \E j \in DOMAIN table_pairs : \E k \in DOMAIN index_pairs(table_pairs[j]) :
          /\ not_redefined(tables_to_redefine, table_pairs[j])
          /\ index_should_be_renamed(table_pairs[j], index_pairs(table_pairs[j])[k],
                                     index_flavour.renamed)
          /\ IndexSteps(1, "RedefineIndex", table_pairs[j], index_pairs(table_pairs[j])[k]) # {}

\* C18: every AlterTable whose changes contain AddPrimaryKey is for a table
\* whose next side has a primary key of at least one column, and every
\* AlterTable with DropPrimaryKey, and every RedefineTable with
\* dropped_primary_key = true, is for a table whose previous side has a
\* primary key.
C18_PrimaryKeyChangesHaveAKey ==
    Done =>
        \A r \in Runs : \A i \in DOMAIN steps[r] :
            LET step == steps[r][i]
            IN  /\ step.kind = "AlterTable" =>
                    /\ AddPrimaryKey \in Range(step.changes) =>
                            /\ IsSome(next_table(step.table_ids).primary_key)
                            /\ Len(next_table(step.table_ids).primary_key[1].columns) > 0
                    /\ DropPrimaryKey \in Range(step.changes) =>
                            IsSome(previous_table(step.table_ids).primary_key)
                /\ step.kind = "RedefineTables" =>
                    \A t \in Range(step.tables) :
                        t.dropped_primary_key => IsSome(previous_table(t.table_ids).primary_key)
====
